---- MODULE Spec2Model ----
(***************************************************************************)
(* State-machine model of the round engine of streamlit-game-theory.py:    *)
(* the slider inputs, the session state (ledger of rounds, round counter,  *)
(* the two ELO ratings and their histories) and the three button handlers. *)
(*                                                                         *)
(* Numbers.  The program computes ratings and scores in floating point.    *)
(* Here a rating or a score x is the integer x * Scale (fixed point with   *)
(* Scale units per 1.0), and a utility u is the integer u * UtilScale.     *)
(* Floating-point rounding of the last bit is outside the model.           *)
(***************************************************************************)
EXTENDS Integers, Sequences, FiniteSets

VARIABLES
    player_a,        \* slider values of Player A, in dictionary order
    player_b,        \* slider values of Player B, in dictionary order
    game_history,    \* st.session_state.game_history
    round_number,    \* st.session_state.round_number
    elo_a,           \* st.session_state.elo_a
    elo_b,           \* st.session_state.elo_b
    elo_history_a,   \* st.session_state.elo_history_a
    elo_history_b,   \* st.session_state.elo_history_b
    clicked          \* the button whose handler ran in the latest script run

vars == <<player_a, player_b, game_history, round_number, elo_a, elo_b,
          elo_history_a, elo_history_b, clicked>>

session == <<game_history, round_number, elo_a, elo_b,
             elo_history_a, elo_history_b>>

----------------------------------------------------------------------------
(* Bounds of the model *)

\* rounds the model plays before it stops accepting "Run Simulation Round"
MaxRounds == 4

\* rounds played by the specification that follows the classifier over
\* ledgers longer than its five-round window
MaxClassifyRounds == 6

\* rounds played by the specification that runs past the tenth round, where
\* the K-factor starts to depend on the rating
MaxLongRounds == 12

----------------------------------------------------------------------------
(* Number representation *)

\* fixed-point units per 1.0 of a rating, an expected or an actual score
Scale == 10000

\* fixed-point units per 1.0 of a utility: the mean of 7 integer sliders is
\* a multiple of 1/7, and the thresholds 5.5 and 6.5 are multiples of 1/2
UtilScale == 14

\* ln(10)/400 as the fraction LnNum/LnDen (relative error below 1e-8)
LnNum == 163
LnDen == 28316

\* number of terms of the exponential series
ExpTerms == 14

\* the sliders: st.slider(label, 0, 10, 5), seven per player
SliderMin == 0
SliderMax == 10
SliderDefault == 5
NumSliders == 7

\* rounds_played below which calculate_k_factor answers 40
NewPlayerRounds == 10

\* starting ELO
StartElo == 1500 * Scale

----------------------------------------------------------------------------
(* Inputs *)

\* a full set of slider values whose sum is total
Metrics(total) ==
    [i \in 1..NumSliders |->
        (total \div NumSliders) + (IF i <= total % NumSliders THEN 1 ELSE 0)]

\* every sum the seven sliders can have
AllTotals == (NumSliders * SliderMin)..(NumSliders * SliderMax)

\* the slider settings the round engine is exercised with: all sliders at 2
\* (utility 2, Defect) and all sliders at 9 (utility 9, Cooperate)
PlayTotals == {2 * NumSliders, 9 * NumSliders}

----------------------------------------------------------------------------
(* ELO rating functions *)

RECURSIVE ExpSeries(_, _, _)
\* sum of the terms n..ExpTerms of exp(z), term being the n-th term
ExpSeries(z, n, term) ==
    IF n > ExpTerms THEN 0
    ELSE term + ExpSeries(z, n + 1, (term * z) \div ((n + 1) * Scale))

\* 10 ** (diff / 400), diff a rating difference
Pow10(diff) == ExpSeries((diff * LnNum) \div LnDen, 0, Scale)


calculate_expected_score_noparen(ea, eb) ==
    Scale + Pow10(eb - ea)

calculate_expected_score(ea, eb) ==
    (Scale * Scale) \div (Scale + Pow10(eb - ea))

update_elo_noparen(elo_current, expected, actual, k_factor) ==
    elo_current + (k_factor * actual) - expected

update_elo(elo_current, expected, actual, k_factor) ==
    elo_current + k_factor * (actual - expected)

calculate_actual_score_swapped(payoff_a, payoff_b) ==
    IF payoff_a > payoff_b THEN <<0, Scale>>
    ELSE IF payoff_b > payoff_a THEN <<Scale, 0>>
    ELSE <<Scale \div 2, Scale \div 2>>

calculate_actual_score_drawloss(payoff_a, payoff_b) ==
    IF payoff_a > payoff_b THEN <<Scale, 0>>
    ELSE IF payoff_b > payoff_a THEN <<0, Scale>>
    ELSE <<0, 0>>

calculate_actual_score(payoff_a, payoff_b) ==
    IF payoff_a > payoff_b THEN <<Scale, 0>>
    ELSE IF payoff_b > payoff_a THEN <<0, Scale>>
    ELSE <<Scale \div 2, Scale \div 2>>


calculate_k_factor_le10(elo, rounds_played) ==
    IF rounds_played <= 10 THEN 40
    ELSE IF elo < 1400 * Scale THEN 32
    ELSE IF elo < 1600 * Scale THEN 24
    ELSE 16


calculate_k_factor_lt5(elo, rounds_played) ==
    IF rounds_played < 5 THEN 40
    ELSE IF elo < 1400 * Scale THEN 32
    ELSE IF elo < 1600 * Scale THEN 24
    ELSE 16

calculate_k_factor(elo, rounds_played) ==
    IF rounds_played < 10 THEN 40
    ELSE IF elo < 1400 * Scale THEN 32
    ELSE IF elo < 1600 * Scale THEN 24
    ELSE 16

----------------------------------------------------------------------------
(* Game theory functions *)

RECURSIVE SumSeq(_)
SumSeq(s) == IF s = <<>> THEN 0 ELSE Head(s) + SumSeq(Tail(s))

\* np.mean of the slider values
calculate_utility(metrics) == (SumSeq(metrics) * UtilScale) \div Len(metrics)

determine_strategy(utility) ==
    IF utility >= (55 * UtilScale) \div 10 THEN "Cooperate" ELSE "Defect"

payoff_matrix ==
    [cooperate_cooperate   |-> [a |-> 8, b |-> 8, outcome |-> "MATCHED"],
     cooperate_defect      |-> [a |-> 2, b |-> 9, outcome |-> "NOT MATCHED"],
     defect_cooperate      |-> [a |-> 9, b |-> 2, outcome |-> "NOT MATCHED"],
     defect_defect         |-> [a |-> 4, b |-> 4, outcome |-> "COMPLICATED"],
     mixed_strategy        |-> [a |-> 5, b |-> 6, outcome |-> "CONFUSED"],
     asymmetric_investment |-> [a |-> 7, b |-> 7, outcome |-> "ENGAGED"]]

calculate_payoff_by_utility(strategy_a, strategy_b, utility_a, utility_b) ==
    LET avg_utility == (utility_a + utility_b) \div 2 IN
    IF strategy_a = "Cooperate" /\ strategy_b = "Cooperate"
        THEN IF avg_utility >= (65 * UtilScale) \div 10
             THEN payoff_matrix.asymmetric_investment
             ELSE payoff_matrix.cooperate_cooperate
    ELSE IF strategy_a = "Cooperate" /\ strategy_b = "Defect"
        THEN payoff_matrix.cooperate_defect
    ELSE IF strategy_a = "Defect" /\ strategy_b = "Cooperate"
        THEN payoff_matrix.defect_cooperate
    ELSE IF strategy_a = "Defect" /\ strategy_b = "Defect"
        THEN payoff_matrix.defect_defect
    ELSE payoff_matrix.mixed_strategy


calculate_payoff_typo(strategy_a, strategy_b, utility_a, utility_b) ==
    IF strategy_a = "Cooperate" /\ strategy_b = "Cooperate"
        THEN payoff_matrix.cooperate_cooperate
    ELSE IF strategy_a = "Cooperate" /\ strategy_b = "Defect"
        THEN payoff_matrix.cooperate_defect
    ELSE IF strategy_a = "Defect" /\ strategy_b = "Cooperate"
        THEN payoff_matrix.defect_cooperate
    ELSE IF strategy_a = "Defect" /\ strategy_b = "Defects"
        THEN payoff_matrix.defect_defect
    ELSE LET avg_utility == (utility_a + utility_b) \div 2 IN
         IF avg_utility >= (65 * UtilScale) \div 10
         THEN payoff_matrix.asymmetric_investment
         ELSE payoff_matrix.mixed_strategy

calculate_payoff(strategy_a, strategy_b, utility_a, utility_b) ==
    IF strategy_a = "Cooperate" /\ strategy_b = "Cooperate"
        THEN payoff_matrix.cooperate_cooperate
    ELSE IF strategy_a = "Cooperate" /\ strategy_b = "Defect"
        THEN payoff_matrix.cooperate_defect
    ELSE IF strategy_a = "Defect" /\ strategy_b = "Cooperate"
        THEN payoff_matrix.defect_cooperate
    ELSE IF strategy_a = "Defect" /\ strategy_b = "Defect"
        THEN payoff_matrix.defect_defect
    ELSE LET avg_utility == (utility_a + utility_b) \div 2 IN
         IF avg_utility >= (65 * UtilScale) \div 10
         THEN payoff_matrix.asymmetric_investment
         ELSE payoff_matrix.mixed_strategy

\* history[-5:]
LastFive(history) ==
    SubSeq(history, IF Len(history) > 5 THEN Len(history) - 4 ELSE 1,
           Len(history))

BothCooperate(h) == h.strategy_a = "Cooperate" /\ h.strategy_b = "Cooperate"

identify_game_type_short2(history) ==
    IF Len(history) < 2 THEN "Initial Assessment Phase"
    ELSE
    LET recent == LastFive(history)
        coop_count == Cardinality({i \in DOMAIN recent : BothCooperate(recent[i])})
        last_round == history[Len(history)]
    IN  IF last_round.strategy_a = "Defect" /\ last_round.strategy_b = "Defect"
            THEN "Prisoner's Dilemma"
        ELSE IF last_round.strategy_a # last_round.strategy_b /\ coop_count < 2
            THEN "Battle of Sexes"
        ELSE IF coop_count >= 3
            THEN "Stag Hunt (Trust Building)"
        ELSE IF Len(history) > 5
            THEN "Repeated Game"
        ELSE "Chicken Game (Brinkmanship)"

identify_game_type_stagfirst(history) ==
    IF Len(history) < 3 THEN "Initial Assessment Phase"
    ELSE
    LET recent == LastFive(history)
        coop_count == Cardinality({i \in DOMAIN recent : BothCooperate(recent[i])})
        last_round == history[Len(history)]
    IN  IF coop_count >= 3
            THEN "Stag Hunt (Trust Building)"
        ELSE IF last_round.strategy_a = "Defect" /\ last_round.strategy_b = "Defect"
            THEN "Prisoner's Dilemma"
        ELSE IF last_round.strategy_a # last_round.strategy_b /\ coop_count < 2
            THEN "Battle of Sexes"
        ELSE IF Len(history) > 5
            THEN "Repeated Game"
        ELSE "Chicken Game (Brinkmanship)"


identify_game_type_ge5(history) ==
    IF Len(history) < 3 THEN "Initial Assessment Phase"
    ELSE
    LET recent == LastFive(history)
        coop_count == Cardinality({i \in DOMAIN recent : BothCooperate(recent[i])})
        last_round == history[Len(history)]
    IN  IF last_round.strategy_a = "Defect" /\ last_round.strategy_b = "Defect"
            THEN "Prisoner's Dilemma"
        ELSE IF last_round.strategy_a # last_round.strategy_b /\ coop_count < 2
            THEN "Battle of Sexes"
        ELSE IF coop_count >= 3
            THEN "Stag Hunt (Trust Building)"
        ELSE IF Len(history) >= 5
            THEN "Repeated Game"
        ELSE "Chicken Game (Brinkmanship)"

identify_game_type(history) ==
    IF Len(history) < 3 THEN "Initial Assessment Phase"
    ELSE
    LET recent == LastFive(history)
        coop_count == Cardinality({i \in DOMAIN recent : BothCooperate(recent[i])})
        last_round == history[Len(history)]
    IN  IF last_round.strategy_a = "Defect" /\ last_round.strategy_b = "Defect"
            THEN "Prisoner's Dilemma"
        ELSE IF last_round.strategy_a # last_round.strategy_b /\ coop_count < 2
            THEN "Battle of Sexes"
        ELSE IF coop_count >= 3
            THEN "Stag Hunt (Trust Building)"
        ELSE IF Len(history) > 5
            THEN "Repeated Game"
        ELSE "Chicken Game (Brinkmanship)"

----------------------------------------------------------------------------
(* The script run: values derived from the sliders on every run *)

utility_a == calculate_utility(player_a)
utility_b == calculate_utility(player_b)
strategy_a == determine_strategy(utility_a)
strategy_b == determine_strategy(utility_b)


MakeRound_sequential(game_type) ==
    LET payoff     == calculate_payoff(strategy_a, strategy_b, utility_a, utility_b)
        expected_a == calculate_expected_score(elo_a, elo_b)
        actual     == calculate_actual_score(payoff.a, payoff.b)
        actual_a   == actual[1]
        actual_b   == actual[2]
        k_factor_a == calculate_k_factor(elo_a, round_number)
        new_elo_a  == update_elo(elo_a, expected_a, actual_a, k_factor_a)
        expected_b == calculate_expected_score(elo_b, new_elo_a)
        k_factor_b == calculate_k_factor(elo_b, round_number)
        new_elo_b  == update_elo(elo_b, expected_b, actual_b, k_factor_b)
    IN  [round        |-> round_number + 1,
         strategy_a   |-> strategy_a,
         strategy_b   |-> strategy_b,
         utility_a    |-> utility_a,
         utility_b    |-> utility_b,
         payoff_a     |-> payoff.a,
         payoff_b     |-> payoff.b,
         outcome      |-> payoff.outcome,
         game_type    |-> game_type,
         elo_a        |-> elo_a,
         elo_b        |-> elo_b,
         new_elo_a    |-> new_elo_a,
         new_elo_b    |-> new_elo_b,
         elo_change_a |-> new_elo_a - elo_a,
         elo_change_b |-> new_elo_b - elo_b,
         expected_a   |-> expected_a,
         actual_a     |-> actual_a]

\* the dictionary round_data assembled by the "Run Simulation Round" handler,
\* game_type being the label it stores (f_score and timestamp are left out)
MakeRound(game_type) ==
    LET payoff     == calculate_payoff(strategy_a, strategy_b, utility_a, utility_b)
        expected_a == calculate_expected_score(elo_a, elo_b)
        expected_b == Scale - expected_a
        actual     == calculate_actual_score(payoff.a, payoff.b)
        actual_a   == actual[1]
        actual_b   == actual[2]
        k_factor_a == calculate_k_factor(elo_a, round_number)
        k_factor_b == calculate_k_factor(elo_b, round_number)
        new_elo_a  == update_elo(elo_a, expected_a, actual_a, k_factor_a)
        new_elo_b  == update_elo(elo_b, expected_b, actual_b, k_factor_b)
    IN  [round        |-> round_number + 1,
         strategy_a   |-> strategy_a,
         strategy_b   |-> strategy_b,
         utility_a    |-> utility_a,
         utility_b    |-> utility_b,
         payoff_a     |-> payoff.a,
         payoff_b     |-> payoff.b,
         outcome      |-> payoff.outcome,
         game_type    |-> game_type,
         elo_a        |-> elo_a,
         elo_b        |-> elo_b,
         new_elo_a    |-> new_elo_a,
         new_elo_b    |-> new_elo_b,
         elo_change_a |-> new_elo_a - elo_a,
         elo_change_b |-> new_elo_b - elo_b,
         expected_a   |-> expected_a,
         actual_a     |-> actual_a]

round_data_self_classified ==
    MakeRound(identify_game_type(Append(game_history, MakeRound(""))))

round_data == MakeRound(identify_game_type(game_history))


----------------------------------------------------------------------------
(* Strategic insights: ELO momentum *)

\* seq[-n] of Python: the n-th element from the end, an IndexError (ok
\* FALSE) when the list has fewer than n elements
FromEnd(seq, n) ==
    IF n <= Len(seq)
    THEN [ok |-> TRUE,  value |-> seq[Len(seq) - n + 1]]
    ELSE [ok |-> FALSE, value |-> 0]

\* the two momentum lines of the insights panel: shown or not, their
\* values, and whether computing them raised an IndexError
MomentumPanel(enough) ==
    IF game_history # <<>> /\ enough
    THEN LET last_a  == FromEnd(elo_history_a, 1)
             fifth_a == FromEnd(elo_history_a, 5)
             last_b  == FromEnd(elo_history_b, 1)
             fifth_b == FromEnd(elo_history_b, 5)
         IN  [shown |-> TRUE,
              error |-> ~(last_a.ok /\ fifth_a.ok /\ last_b.ok /\ fifth_b.ok),
              elo_momentum_a |-> last_a.value - fifth_a.value,
              elo_momentum_b |-> last_b.value - fifth_b.value]
    ELSE [shown |-> FALSE, error |-> FALSE,
          elo_momentum_a |-> 0, elo_momentum_b |-> 0]

elo_momentum_ge4 == MomentumPanel(Len(elo_history_a) >= 4)

elo_momentum == MomentumPanel(Len(elo_history_a) >= 5)

----------------------------------------------------------------------------
(* Initial state and the handlers *)

SessionInit ==
    /\ game_history = <<>>
    /\ round_number = 0
    /\ elo_a = StartElo
    /\ elo_b = StartElo
    /\ elo_history_a = <<StartElo>>
    /\ elo_history_b = <<StartElo>>

Init ==
    /\ player_a = Metrics(NumSliders * SliderDefault)
    /\ player_b = Metrics(NumSliders * SliderDefault)
    /\ SessionInit
    /\ clicked = "none"

\* the user moves sliders; the script reruns with no button pressed
SetSliders(ma, mb) ==
    /\ player_a' = ma
    /\ player_b' = mb
    /\ clicked' = "none"
    /\ UNCHANGED session

RunSimulationRound_prepend ==
    /\ LET rd == round_data IN
        /\ game_history' = <<rd>> \o game_history
        /\ round_number' = round_number + 1
        /\ elo_a' = rd.new_elo_a
        /\ elo_b' = rd.new_elo_b
        /\ elo_history_a' = Append(elo_history_a, rd.new_elo_a)
        /\ elo_history_b' = Append(elo_history_b, rd.new_elo_b)
    /\ clicked' = "run"
    /\ UNCHANGED <<player_a, player_b>>

RunSimulationRound_stale_history ==
    /\ LET rd == round_data IN
        /\ game_history' = Append(game_history, rd)
        /\ round_number' = round_number + 1
        /\ elo_history_a' = Append(elo_history_a, elo_a)
        /\ elo_history_b' = Append(elo_history_b, elo_b)
        /\ elo_a' = rd.new_elo_a
        /\ elo_b' = rd.new_elo_b
    /\ clicked' = "run"
    /\ UNCHANGED <<player_a, player_b>>

RunSimulationRound ==
    /\ LET rd == round_data IN
        /\ game_history' = Append(game_history, rd)
        /\ round_number' = round_number + 1
        /\ elo_a' = rd.new_elo_a
        /\ elo_b' = rd.new_elo_b
        /\ elo_history_a' = Append(elo_history_a, rd.new_elo_a)
        /\ elo_history_b' = Append(elo_history_b, rd.new_elo_b)
    /\ clicked' = "run"
    /\ UNCHANGED <<player_a, player_b>>

ResetSimulation_keeps_counter ==
    /\ game_history' = <<>>
    /\ elo_a' = StartElo
    /\ elo_b' = StartElo
    /\ elo_history_a' = <<StartElo>>
    /\ elo_history_b' = <<StartElo>>
    /\ clicked' = "reset"
    /\ UNCHANGED <<player_a, player_b, round_number>>

ResetSimulation ==
    /\ game_history' = <<>>
    /\ round_number' = 0
    /\ elo_a' = StartElo
    /\ elo_b' = StartElo
    /\ elo_history_a' = <<StartElo>>
    /\ elo_history_b' = <<StartElo>>
    /\ clicked' = "reset"
    /\ UNCHANGED <<player_a, player_b>>

ResetEloOnly_clears_rounds ==
    /\ game_history' = <<>>
    /\ elo_a' = StartElo
    /\ elo_b' = StartElo
    /\ elo_history_a' = <<StartElo>>
    /\ elo_history_b' = <<StartElo>>
    /\ clicked' = "reset_elo"
    /\ UNCHANGED <<player_a, player_b, round_number>>

ResetEloOnly_keeps_history ==
    /\ elo_a' = StartElo
    /\ elo_b' = StartElo
    /\ clicked' = "reset_elo"
    /\ UNCHANGED <<player_a, player_b, game_history, round_number,
                   elo_history_a, elo_history_b>>

ResetEloOnly_resets_counter ==
    /\ round_number' = 0
    /\ elo_a' = StartElo
    /\ elo_b' = StartElo
    /\ elo_history_a' = <<StartElo>>
    /\ elo_history_b' = <<StartElo>>
    /\ clicked' = "reset_elo"
    /\ UNCHANGED <<player_a, player_b, game_history>>

ResetEloOnly ==
    /\ elo_a' = StartElo
    /\ elo_b' = StartElo
    /\ elo_history_a' = <<StartElo>>
    /\ elo_history_b' = <<StartElo>>
    /\ clicked' = "reset_elo"
    /\ UNCHANGED <<player_a, player_b, game_history, round_number>>

MoveSliders ==
    \E ta \in PlayTotals, tb \in PlayTotals : SetSliders(Metrics(ta), Metrics(tb))

\* the model stops accepting "Run Simulation Round" after MaxRounds rounds
PlayRound == round_number < MaxRounds /\ RunSimulationRound

Next ==
    \/ MoveSliders
    \/ PlayRound
    \/ ResetSimulation
    \/ ResetEloOnly

Spec == Init /\ [][Next]_vars

\* the sliders alone, over every value their sums can take
MoveSlidersAnywhere ==
    \E ta \in AllTotals, tb \in AllTotals : SetSliders(Metrics(ta), Metrics(tb))

SpecSliders == Init /\ [][MoveSlidersAnywhere]_vars

\* rounds and full resets only, over ledgers of up to MaxClassifyRounds rounds
PlayClassifyRound == round_number < MaxClassifyRounds /\ RunSimulationRound

NextClassify ==
    \/ MoveSliders
    \/ PlayClassifyRound
    \/ ResetSimulation

SpecClassify == Init /\ [][NextClassify]_vars

\* a long session: Player B keeps cooperating, Player A defects (and wins the
\* round) or cooperates (a draw); the ratings-only reset is pressed late,
\* before the last round of the session
MoveSlidersLong ==
    \E ta \in PlayTotals :
        SetSliders(Metrics(ta), Metrics(9 * NumSliders))

PlayLongRound == round_number < MaxLongRounds /\ RunSimulationRound

LateResetEloOnly == round_number >= MaxLongRounds - 1 /\ ResetEloOnly

NextLong ==
    \/ MoveSlidersLong
    \/ PlayLongRound
    \/ LateResetEloOnly
    \/ ResetSimulation

SpecLong == Init /\ [][NextLong]_vars

----------------------------------------------------------------------------
(* Helpers of the properties *)

Last(s) == s[Len(s)]

IsPrefix(s, t) == Len(s) <= Len(t) /\ SubSeq(t, 1, Len(s)) = s

LastIsDefectDefect(history) ==
    /\ Len(history) > 0
    /\ Last(history).strategy_a = "Defect"
    /\ Last(history).strategy_b = "Defect"

\* the first round of a session, played from (1500,1500) by a defecting A
\* against a cooperating B
FirstRoundDefectCooperate(r) ==
    /\ r.round = 1
    /\ r.elo_a = StartElo
    /\ r.elo_b = StartElo
    /\ r.strategy_a = "Defect"
    /\ r.strategy_b = "Cooperate"

\* both parties of round r used the same K-factor
SameK(r) ==
    calculate_k_factor(r.elo_a, r.round - 1) = calculate_k_factor(r.elo_b, r.round - 1)

ZeroSum(r) == (r.new_elo_a - r.elo_a) = -(r.new_elo_b - r.elo_b)

----------------------------------------------------------------------------
(* C1 *)

\* C1 as stated: a first round from (1500,1500) with A Defect and B Cooperate
\* has payoff (9,2), actual scores A = 0.0 and B = 1.0, and new ratings
\* A = 1480, B = 1520.
C1_AsStated ==
    \A i \in DOMAIN game_history :
        LET r == game_history[i] IN
        FirstRoundDefectCooperate(r) =>
            /\ r.payoff_a = 9 /\ r.payoff_b = 2
            /\ r.actual_a = 0
            /\ calculate_actual_score(r.payoff_a, r.payoff_b)[2] = Scale
            /\ r.new_elo_a = 1480 * Scale
            /\ r.new_elo_b = 1520 * Scale

\* C1 amended: such a round has payoff (9,2); A's payoff is the greater one,
\* so the actual scores are A = 1.0 and B = 0.0 and the new ratings are
\* A = 1520 and B = 1480, which are also the session ratings after the round.
C1_DefectCooperateRound ==
    /\ \A i \in DOMAIN game_history :
        LET r == game_history[i] IN
        FirstRoundDefectCooperate(r) =>
            /\ r.payoff_a = 9 /\ r.payoff_b = 2
            /\ r.actual_a = Scale
            /\ calculate_actual_score(r.payoff_a, r.payoff_b)[2] = 0
            /\ r.new_elo_a = 1520 * Scale
            /\ r.new_elo_b = 1480 * Scale
    /\ (clicked = "run" /\ FirstRoundDefectCooperate(Last(game_history))) =>
            /\ elo_a = 1520 * Scale
            /\ elo_b = 1480 * Scale

C1_Witness ==
    /\ clicked = "run"
    /\ Len(game_history) = 1
    /\ FirstRoundDefectCooperate(game_history[1])
    /\ game_history[1].utility_a = 2 * UtilScale
    /\ game_history[1].utility_b = 9 * UtilScale

----------------------------------------------------------------------------
(* C2 *)

\* C2: a "Reset ELO Only" step leaves both ratings at 1500 and both rating
\* histories equal to [1500], and changes neither the round records nor the
\* round counter.
C2_ResetEloOnlyEffect ==
    [][ResetEloOnly =>
        /\ elo_a' = 1500 * Scale
        /\ elo_b' = 1500 * Scale
        /\ elo_history_a' = <<1500 * Scale>>
        /\ elo_history_b' = <<1500 * Scale>>
        /\ Len(elo_history_a') = 1
        /\ game_history' = game_history
        /\ round_number' = round_number]_vars

\* a ratings-only reset has acted on a session with rounds and moved ratings
C2_Witness ==
    /\ clicked = "reset_elo"
    /\ Len(game_history) >= 2
    /\ round_number = Len(game_history)
    /\ Last(game_history).new_elo_a # StartElo
    /\ elo_a = StartElo
    /\ elo_history_a = <<StartElo>>

----------------------------------------------------------------------------
(* C3 *)

\* C3: a "Reset Simulation" step leaves the ledger empty, the round counter
\* 0, both ratings 1500 and both rating histories [1500]: the session state
\* of a fresh session.
C3_ResetSimulationEffect ==
    [][ResetSimulation =>
        /\ game_history' = <<>>
        /\ round_number' = 0
        /\ elo_a' = 1500 * Scale
        /\ elo_b' = 1500 * Scale
        /\ elo_history_a' = <<1500 * Scale>>
        /\ elo_history_b' = <<1500 * Scale>>
        /\ SessionInit']_vars

\* a full reset has acted (no round can follow it without another click)
C3_Witness ==
    /\ clicked = "reset"
    /\ SessionInit
    /\ strategy_a = "Defect"
    /\ strategy_b = "Cooperate"

----------------------------------------------------------------------------
(* C4 *)

\* C4: in every recorded round in which both parties used the same K-factor
\* and the payoffs differ, the two rating changes are exact negatives.
C4_ZeroSumNoDraw ==
    \A i \in DOMAIN game_history :
        LET r == game_history[i] IN
        (SameK(r) /\ r.payoff_a # r.payoff_b) => ZeroSum(r)

\* a decisive round played from unequal ratings
C4_Witness ==
    \E i \in DOMAIN game_history :
        LET r == game_history[i] IN
        /\ SameK(r)
        /\ r.payoff_a # r.payoff_b
        /\ r.elo_a # r.elo_b
        /\ r.new_elo_a # r.elo_a

----------------------------------------------------------------------------
(* C5 *)

\* C5 as stated: a drawn round played from unequal ratings with equal
\* K-factors is not zero-sum.
C5_AsStated ==
    \A i \in DOMAIN game_history :
        LET r == game_history[i] IN
        (SameK(r) /\ r.payoff_a = r.payoff_b /\ r.elo_a # r.elo_b) => ~ZeroSum(r)

\* C5 amended: a drawn round played from unequal ratings with equal
\* K-factors is zero-sum as well (expected_b is 1 - expected_a and the two
\* draw scores add up to 1).
C5_ZeroSumDraw ==
    \A i \in DOMAIN game_history :
        LET r == game_history[i] IN
        (SameK(r) /\ r.payoff_a = r.payoff_b /\ r.elo_a # r.elo_b) => ZeroSum(r)

\* a draw from unequal ratings that moved the ratings
C5_Witness ==
    \E i \in DOMAIN game_history :
        LET r == game_history[i] IN
        /\ SameK(r)
        /\ r.payoff_a = r.payoff_b
        /\ r.elo_a # r.elo_b
        /\ r.new_elo_a # r.elo_a
        /\ r.actual_a = Scale \div 2

----------------------------------------------------------------------------
(* C6 *)

\* C6 as stated: the classifier answers Prisoner's Dilemma for every ledger
\* whose most recent round is Defect/Defect, also of length 1 or 2.
C6_AsStated ==
    LastIsDefectDefect(game_history) =>
        identify_game_type(game_history) = "Prisoner's Dilemma"

\* C6 amended: the classifier answers Prisoner's Dilemma for every ledger of
\* at least 3 rounds whose most recent round is Defect/Defect, whatever the
\* older rounds; for a ledger of 1 or 2 rounds the length test comes first
\* and the answer is Initial Assessment.
C6_DefectDefectLast ==
    LastIsDefectDefect(game_history) =>
        identify_game_type(game_history) =
            IF Len(game_history) >= 3 THEN "Prisoner's Dilemma"
            ELSE "Initial Assessment Phase"

\* a ledger ending Defect/Defect whose last five rounds hold three
\* Cooperate/Cooperate rounds
C6_Witness ==
    /\ LastIsDefectDefect(game_history)
    /\ Len(game_history) >= 4
    /\ Cardinality({i \in DOMAIN game_history : BothCooperate(game_history[i])}) >= 3

----------------------------------------------------------------------------
(* C7 *)

\* C7: the classifier answers Initial Assessment for every ledger of fewer
\* than 3 rounds, and the first three records of a ledger carry that label.
C7_InitialAssessment ==
    /\ Len(game_history) < 3 =>
            identify_game_type(game_history) = "Initial Assessment Phase"
    /\ \A i \in DOMAIN game_history :
            i <= 3 => game_history[i].game_type = "Initial Assessment Phase"

\* three rounds recorded, the first two of them Defect/Defect
C7_Witness ==
    /\ Len(game_history) = 3
    /\ LastIsDefectDefect(SubSeq(game_history, 1, 1))
    /\ LastIsDefectDefect(SubSeq(game_history, 1, 2))

----------------------------------------------------------------------------
(* C8 *)

\* C8: the game-type label of record n is the classifier applied to the
\* records 1..n-1, the ledger as it was before round n was appended.
C8_LabelFromPriorHistory ==
    \A n \in DOMAIN game_history :
        game_history[n].game_type =
            identify_game_type(SubSeq(game_history, 1, n - 1))

\* a record whose label would differ had the record classified itself
C8_Witness ==
    \E n \in DOMAIN game_history :
        /\ n >= 4
        /\ game_history[n].game_type #
                identify_game_type(SubSeq(game_history, 1, n))

----------------------------------------------------------------------------
(* C9 *)

\* C9: a round step appends exactly one record and keeps the earlier ones, a
\* ratings-only reset keeps the ledger, and any step that does not keep the
\* ledger as a prefix is a full reset that empties it.
C9_AppendOnly ==
    [][/\ RunSimulationRound =>
            /\ Len(game_history') = Len(game_history) + 1
            /\ SubSeq(game_history', 1, Len(game_history)) = game_history
       /\ ResetEloOnly => game_history' = game_history
       /\ ResetSimulation => game_history' = <<>>
       /\ \/ game_history' = game_history
          \/ /\ Len(game_history') = Len(game_history) + 1
             /\ IsPrefix(game_history, game_history')
          \/ /\ game_history' = <<>>
             /\ clicked' = "reset"]_vars

\* a ledger that grew to several rounds and then survived a ratings-only reset
C9_Witness ==
    /\ clicked = "reset_elo"
    /\ Len(game_history) >= 3

----------------------------------------------------------------------------
(* C10 *)

\* C10: whatever the two utilities, the payoff entry looked up for the
\* current sliders is the one of the strategy pair: (8,8,MATCHED) for
\* Cooperate/Cooperate, (2,9,NOT MATCHED) for Cooperate/Defect,
\* (9,2,NOT MATCHED) for Defect/Cooperate, (4,4,COMPLICATED) for Defect/Defect.
C10_PayoffByStrategyPair ==
    LET payoff == calculate_payoff(strategy_a, strategy_b, utility_a, utility_b) IN
    /\ (strategy_a = "Cooperate" /\ strategy_b = "Cooperate") =>
            payoff = [a |-> 8, b |-> 8, outcome |-> "MATCHED"]
    /\ (strategy_a = "Cooperate" /\ strategy_b = "Defect") =>
            payoff = [a |-> 2, b |-> 9, outcome |-> "NOT MATCHED"]
    /\ (strategy_a = "Defect" /\ strategy_b = "Cooperate") =>
            payoff = [a |-> 9, b |-> 2, outcome |-> "NOT MATCHED"]
    /\ (strategy_a = "Defect" /\ strategy_b = "Defect") =>
            payoff = [a |-> 4, b |-> 4, outcome |-> "COMPLICATED"]

\* both cooperate with a high average utility, where the utility-keyed
\* fallback would answer ENGAGED
C10_Witness ==
    /\ strategy_a = "Cooperate"
    /\ strategy_b = "Cooperate"
    /\ utility_a # utility_b
    /\ (utility_a + utility_b) \div 2 >= (65 * UtilScale) \div 10

----------------------------------------------------------------------------
(* C11 *)

\* C11: a recorded round played from equal ratings with equal payoffs has
\* actual scores (0.5,0.5), expected scores (0.5,0.5), both rating changes 0
\* and leaves both ratings as they were; a Cooperate/Cooperate first round
\* from (1500,1500) ends at (1500,1500).
C11_DrawAtEqualRatings ==
    /\ \A i \in DOMAIN game_history :
        LET r == game_history[i] IN
        (r.elo_a = r.elo_b /\ r.payoff_a = r.payoff_b) =>
            /\ r.actual_a = Scale \div 2
            /\ calculate_actual_score(r.payoff_a, r.payoff_b)[2] = Scale \div 2
            /\ r.expected_a = Scale \div 2
            /\ Scale - r.expected_a = Scale \div 2
            /\ r.elo_change_a = 0
            /\ r.elo_change_b = 0
            /\ r.new_elo_a = r.elo_a
            /\ r.new_elo_b = r.elo_b
    /\ (clicked = "run" /\ Len(game_history) = 1 /\ BothCooperate(game_history[1])) =>
            /\ elo_a = 1500 * Scale
            /\ elo_b = 1500 * Scale

\* a Cooperate/Cooperate first round, and a later Defect/Defect round that
\* again starts from equal ratings
C11_Witness ==
    /\ clicked = "run"
    /\ Len(game_history) >= 2
    /\ BothCooperate(game_history[1])
    /\ game_history[1].elo_a = StartElo
    /\ game_history[1].new_elo_a = StartElo
    /\ LastIsDefectDefect(game_history)
    /\ Last(game_history).elo_a = Last(game_history).elo_b

----------------------------------------------------------------------------
(* C12 *)

\* Cooperate/Cooperate rounds among the last min(5, length) rounds
CoopCountOfLastFive(history) ==
    Cardinality({i \in 1..Len(history) :
                    i > Len(history) - 5 /\ BothCooperate(history[i])})

\* C12: for a ledger of at least 3 rounds whose last round is not
\* Defect/Defect the classifier answers, first match winning: Battle of
\* Sexes if the last round's strategies differ and fewer than 2 of the last
\* five rounds are Cooperate/Cooperate; else Stag Hunt if at least 3 are;
\* else Repeated Game if the ledger has more than 5 rounds; else Chicken Game.
C12_Cascade ==
    (Len(game_history) >= 3 /\ ~LastIsDefectDefect(game_history)) =>
        LET coopCount == CoopCountOfLastFive(game_history)
            last == Last(game_history)
        IN  identify_game_type(game_history) =
                IF last.strategy_a # last.strategy_b /\ coopCount < 2
                    THEN "Battle of Sexes"
                ELSE IF coopCount >= 3
                    THEN "Stag Hunt (Trust Building)"
                ELSE IF Len(game_history) > 5
                    THEN "Repeated Game"
                ELSE "Chicken Game (Brinkmanship)"

\* a six-round ledger that opens with a Cooperate/Cooperate round outside
\* the window and is classified a Repeated Game, after a five-round prefix
\* that was a Chicken Game
C12_Witness ==
    /\ Len(game_history) = 6
    /\ BothCooperate(game_history[1])
    /\ identify_game_type(game_history) = "Repeated Game"
    /\ identify_game_type(SubSeq(game_history, 1, 5)) = "Chicken Game (Brinkmanship)"
    /\ CoopCountOfLastFive(game_history) = 2

----------------------------------------------------------------------------
(* C13 *)

\* C13: in a round step both expected scores and both K-factors come from
\* the ratings and the round counter of before the step, both new ratings
\* are computed from that pre-round pair, the appended record's pre-round
\* ratings are the session ratings before the step and its post-round
\* ratings the session ratings after it, post = pre + change for each party.
C13_AtomicUpdate ==
    [][RunSimulationRound =>
        LET r          == Last(game_history')
            expected_a == calculate_expected_score(elo_a, elo_b)
            expected_b == Scale - expected_a
            actual     == calculate_actual_score(r.payoff_a, r.payoff_b)
            k_factor_a == calculate_k_factor(elo_a, round_number)
            k_factor_b == calculate_k_factor(elo_b, round_number)
        IN  /\ r.elo_a = elo_a
            /\ r.elo_b = elo_b
            /\ r.expected_a = expected_a
            /\ r.actual_a = actual[1]
            /\ r.new_elo_a = elo_a + k_factor_a * (actual[1] - expected_a)
            /\ r.new_elo_b = elo_b + k_factor_b * (actual[2] - expected_b)
            /\ elo_a' = r.new_elo_a
            /\ elo_b' = r.new_elo_b
            /\ elo_a' = elo_a + r.elo_change_a
            /\ elo_b' = elo_b + r.elo_change_b]_vars

\* a round has just been played from unequal ratings and moved both of them
C13_Witness ==
    /\ clicked = "run"
    /\ Len(game_history) >= 2
    /\ Last(game_history).elo_a # Last(game_history).elo_b
    /\ Last(game_history).elo_change_a # 0
    /\ Last(game_history).elo_change_b # 0
    /\ elo_a = Last(game_history).new_elo_a
    /\ elo_b = Last(game_history).new_elo_b

----------------------------------------------------------------------------
(* C14 *)

\* the K-factor the claim gives for a party rated elo before a round that
\* follows rounds_played rounds
ClaimedK(elo, rounds_played) ==
    IF rounds_played < NewPlayerRounds THEN 40
    ELSE IF elo < 1400 * Scale THEN 32
    ELSE IF elo < 1600 * Scale THEN 24
    ELSE 16

\* C14: each party's rating change in a recorded round is K times (actual -
\* expected) with K = 40 if fewer than 10 rounds preceded the round, and
\* otherwise 32, 24 or 16 by that party's own pre-round rating (below 1400,
\* below 1600, or not); the round counter survives a ratings-only reset, so
\* a round played from (1500,1500) after 10 or more rounds uses K = 24.
C14_KFactor ==
    \A i \in DOMAIN game_history :
        LET r        == game_history[i]
            actual_b == Scale - r.actual_a
            expect_b == Scale - r.expected_a
        IN  /\ r.new_elo_a - r.elo_a =
                    ClaimedK(r.elo_a, r.round - 1) * (r.actual_a - r.expected_a)
            /\ r.new_elo_b - r.elo_b =
                    ClaimedK(r.elo_b, r.round - 1) * (actual_b - expect_b)
            /\ (r.round > NewPlayerRounds /\ r.elo_a = StartElo /\ r.elo_b = StartElo
                    /\ r.actual_a = Scale) =>
                    (r.elo_change_a = 12 * Scale /\ r.elo_change_b = -12 * Scale)

\* the eleventh round was played with K = 16 for A and K = 32 for B, then
\* the ratings were reset and the twelfth round was played with K = 24
C14_Witness ==
    /\ Len(game_history) = 12
    /\ game_history[10].elo_change_a = 40 * (Scale - game_history[10].expected_a)
    /\ game_history[11].elo_a >= 1600 * Scale
    /\ game_history[11].elo_b < 1400 * Scale
    /\ game_history[11].elo_change_a = 16 * (Scale - game_history[11].expected_a)
    /\ game_history[11].elo_change_b = -32 * (Scale - game_history[11].expected_a)
    /\ game_history[12].elo_a = StartElo
    /\ game_history[12].elo_b = StartElo
    /\ game_history[12].elo_change_a = 12 * Scale

----------------------------------------------------------------------------
(* C15 *)

\* C15: every record of the ledger has a payoff pair among (8,8), (2,9),
\* (9,2), (4,4) and an outcome label among MATCHED, NOT MATCHED, COMPLICATED;
\* none carries (7,7) ENGAGED or (5,6) CONFUSED.
C15_FallbackUnreachable ==
    \A i \in DOMAIN game_history :
        LET r == game_history[i] IN
        /\ <<r.payoff_a, r.payoff_b>> \in {<<8, 8>>, <<2, 9>>, <<9, 2>>, <<4, 4>>}
        /\ r.outcome \in {"MATCHED", "NOT MATCHED", "COMPLICATED"}
        /\ ~(r.payoff_a = 7 /\ r.payoff_b = 7)
        /\ ~(r.payoff_a = 5 /\ r.payoff_b = 6)
        /\ r.outcome \notin {"ENGAGED", "CONFUSED"}

\* a ledger whose four records carry the four payoff pairs, among them a
\* Cooperate/Cooperate round of average utility above 6.5 and a
\* Defect/Defect round of average utility below it
C15_Witness ==
    /\ Len(game_history) = 4
    /\ {<<game_history[i].payoff_a, game_history[i].payoff_b>> : i \in 1..4}
            = {<<8, 8>>, <<2, 9>>, <<9, 2>>, <<4, 4>>}
    /\ \E i \in 1..4 :
            /\ BothCooperate(game_history[i])
            /\ game_history[i].utility_a + game_history[i].utility_b >= 13 * UtilScale

----------------------------------------------------------------------------
(* C16 *)

----------------------------------------------------------------------------
(* C17 *)

\* C17: the two rating histories always have the same length, at least 1,
\* each begins with 1500, and the last entry of each is that party's
\* current rating.
C17_ParallelHistories ==
    /\ Len(elo_history_a) = Len(elo_history_b)
    /\ Len(elo_history_a) >= 1
    /\ elo_history_a[1] = 1500 * Scale
    /\ elo_history_b[1] = 1500 * Scale
    /\ Last(elo_history_a) = elo_a
    /\ Last(elo_history_b) = elo_b

\* rounds played after a ratings-only reset: the histories are shorter than
\* the ledger and end in ratings other than 1500
C17_Witness ==
    /\ Len(elo_history_a) >= 3
    /\ Len(elo_history_a) <= Len(game_history)
    /\ elo_a # StartElo
    /\ elo_b # StartElo
    /\ elo_a # elo_history_a[Len(elo_history_a) - 1]

----------------------------------------------------------------------------
(* C18 *)

\* C18: the round counter always equals the number of records in the
\* ledger, and the record at position i has sequence index i.
C18_CounterMatchesLedger ==
    /\ round_number = Len(game_history)
    /\ \A i \in DOMAIN game_history : game_history[i].round = i

\* rounds, a ratings-only reset on the non-empty ledger, and more rounds
C18_Witness ==
    /\ clicked = "run"
    /\ Len(game_history) >= 3
    /\ Len(elo_history_a) = 2
    /\ round_number = Len(game_history)
    /\ Last(game_history).round = Len(game_history)

----------------------------------------------------------------------------
(* C19 *)

\* C19: while the round counter is at most 10 the two ratings add up to
\* 3000; the sum differs from 3000 only after some round past the tenth in
\* which the two parties used different K-factors.
C19_RatingSum ==
    /\ round_number <= NewPlayerRounds => elo_a + elo_b = 3000 * Scale
    /\ elo_a + elo_b # 3000 * Scale =>
            \E i \in DOMAIN game_history :
                /\ game_history[i].round > NewPlayerRounds
                /\ ~SameK(game_history[i])

\* ten rounds left the parties in different K bands with the sum still
\* 3000; the eleventh round moved the sum away from 3000
C19_Witness ==
    /\ clicked = "run"
    /\ round_number = NewPlayerRounds + 1
    /\ game_history[11].elo_a + game_history[11].elo_b = 3000 * Scale
    /\ game_history[11].elo_a # game_history[11].elo_b
    /\ ~SameK(game_history[11])
    /\ elo_a + elo_b # 3000 * Scale

----------------------------------------------------------------------------
(* C20 *)

\* record i starts from the ratings record i-1 ended with (1500 for i = 1)
ChainedAt(i) ==
    /\ game_history[i].elo_a =
            (IF i = 1 THEN StartElo ELSE game_history[i - 1].new_elo_a)
    /\ game_history[i].elo_b =
            (IF i = 1 THEN StartElo ELSE game_history[i - 1].new_elo_b)

\* the rating histories match the ledger: one entry more than there are
\* records, entry i (after the leading 1500) the post-round rating of
\* record i, and every record chained to its predecessor
HistoriesMatchLedger ==
    /\ Len(elo_history_a) = Len(game_history) + 1
    /\ Len(elo_history_b) = Len(game_history) + 1
    /\ \A i \in DOMAIN game_history :
        /\ elo_history_a[i + 1] = game_history[i].new_elo_a
        /\ elo_history_b[i + 1] = game_history[i].new_elo_b
        /\ ChainedAt(i)

====
